---- MODULE Spec2Model ----
(***************************************************************************)
(* vmcnet: the Metropolis-Hastings step (vmcnet/mcmc/metropolis.py) and    *)
(* the local-energy / energy-gradient estimators                           *)
(* (vmcnet/physics/energy.py).                                             *)
(*                                                                         *)
(* Numbers.  An array element is a record [k, n, d]: k = "fin" is the      *)
(* rational n/d in lowest terms, k = "inf" / "ninf" / "nan" are the IEEE   *)
(* specials.  The R* operators are IEEE arithmetic without a range; Fl     *)
(* applies the range of a small binary format (largest magnitude 2^EMax,   *)
(* smallest 2^-EMax) and is used by the acceptance function, which is      *)
(* written to avoid overflow.  exp is taken to base 2 so that its values   *)
(* stay rational: exp(k) = 2^k.                                            *)
(***************************************************************************)
EXTENDS Integers, Sequences, FiniteSets, TLC

VARIABLES data, params, logabs, key, consumed, nsteps, last, acc, en, lap

vars == <<data, params, logabs, key, consumed, nsteps, last, acc, en, lap>>

mcmcVars == <<data, params, logabs, key, consumed, nsteps, last>>

\* Exponent range of the floating-point format of the acceptance function.
EMax == 2

----------------------------------------------------------------------------
\* IEEE numbers

Abs(i) == IF i < 0 THEN -i ELSE i

RECURSIVE Gcd(_, _)
Gcd(a, b) == IF b = 0 THEN a ELSE Gcd(b, a % b)

RECURSIVE Pow2(_)
Pow2(e) == IF e = 0 THEN 1 ELSE 2 * Pow2(e - 1)

Fin(n, d) ==
    LET s == IF d < 0 THEN -1 ELSE 1
        g == Gcd(Abs(n), Abs(d))
    IN  [k |-> "fin", n |-> (s * n) \div g, d |-> (s * d) \div g]

Int2F(i) == Fin(i, 1)

PInf == [k |-> "inf", n |-> 0, d |-> 1]

NInf == [k |-> "ninf", n |-> 0, d |-> 1]

NaN == [k |-> "nan", n |-> 0, d |-> 1]

IsFin(x) == x.k = "fin"

\* -1, 0, 1; 2 for NaN
Sgn(x) ==
    CASE x.k = "nan" -> 2
      [] x.k = "inf" -> 1
      [] x.k = "ninf" -> -1
      [] OTHER -> IF x.n > 0 THEN 1 ELSE IF x.n < 0 THEN -1 ELSE 0

Signed(s) == IF s > 0 THEN PInf ELSE NInf

\* x < y: false when either is NaN
RLess(x, y) ==
    CASE x.k = "nan" \/ y.k = "nan" -> FALSE
      [] x.k = "inf" -> FALSE
      [] y.k = "ninf" -> FALSE
      [] x.k = "ninf" -> TRUE
      [] y.k = "inf" -> TRUE
      [] OTHER -> x.n * y.d < y.n * x.d

\* x == y: false when either is NaN
REq(x, y) == x.k # "nan" /\ y.k # "nan" /\ x = y

RNeg(x) ==
    CASE x.k = "nan" -> NaN
      [] x.k = "inf" -> NInf
      [] x.k = "ninf" -> PInf
      [] OTHER -> Fin(-x.n, x.d)

RAdd(x, y) ==
    CASE x.k = "nan" \/ y.k = "nan" -> NaN
      [] IsFin(x) /\ IsFin(y) -> Fin(x.n * y.d + y.n * x.d, x.d * y.d)
      [] IsFin(x) -> y
      [] IsFin(y) -> x
      [] OTHER -> IF x.k = y.k THEN x ELSE NaN

RSub(x, y) == RAdd(x, RNeg(y))

RMul(x, y) ==
    CASE x.k = "nan" \/ y.k = "nan" -> NaN
      [] IsFin(x) /\ IsFin(y) -> Fin(x.n * y.n, x.d * y.d)
      [] Sgn(x) = 0 \/ Sgn(y) = 0 -> NaN
      [] OTHER -> Signed(Sgn(x) * Sgn(y))

RDiv(x, y) ==
    CASE x.k = "nan" \/ y.k = "nan" -> NaN
      [] IsFin(x) /\ IsFin(y) ->
           IF y.n # 0 THEN Fin(x.n * y.d, x.d * y.n)
           ELSE IF x.n = 0 THEN NaN ELSE Signed(Sgn(x))
      [] IsFin(x) -> Int2F(0)
      [] IsFin(y) -> IF Sgn(y) < 0 THEN RNeg(x) ELSE x
      [] OTHER -> NaN

\* The range of the format: overflow to an infinity, underflow to zero.
Fl(x) ==
    IF ~IsFin(x) \/ x.n = 0 THEN x
    ELSE IF Abs(x.n) > Pow2(EMax) * x.d THEN Signed(Sgn(x))
    ELSE IF Abs(x.n) * Pow2(EMax) < x.d THEN Int2F(0)
    ELSE x

\* jnp.exp on an integer-valued element, to base 2
Exp(x) ==
    CASE x.k = "nan" -> NaN
      [] x.k = "inf" -> PInf
      [] x.k = "ninf" -> Int2F(0)
      [] x.k = "fin" /\ x.d = 1 ->
           IF x.n > EMax THEN PInf
           ELSE IF x.n < -EMax THEN Int2F(0)
           ELSE IF x.n >= 0 THEN Fin(Pow2(x.n), 1) ELSE Fin(1, Pow2(-x.n))

\* jnp.where(cond, a, b) on one element
Where(cond, a, b) == IF cond THEN a ELSE b

----------------------------------------------------------------------------
\* metropolis_symmetric_acceptance

\* faulty variant: the raw branch without the prob_old == 0 guard
accept_raw_noguard(amplitude, proposed_amplitude) ==
    LET prob_old == Fl(RMul(amplitude, amplitude))
        prob_new == Fl(RMul(proposed_amplitude, proposed_amplitude))
        ratio == Fl(RDiv(prob_new, prob_old))
    IN  Where(RLess(prob_old, prob_new), Int2F(1), ratio)

\* one element of the logabs = False branch
accept_raw(amplitude, proposed_amplitude) ==
    LET prob_old == Fl(RMul(amplitude, amplitude))
        prob_new == Fl(RMul(proposed_amplitude, proposed_amplitude))
        ratio == Fl(RDiv(prob_new, prob_old))
    IN  Where(RLess(prob_old, prob_new) \/ REq(prob_old, Int2F(0)),
              Int2F(1), ratio)

\* one element of the logabs = True branch
accept_log(amplitude, proposed_amplitude) ==
    LET log_prob_old == Fl(RMul(Int2F(2), amplitude))
        log_prob_new == Fl(RMul(Int2F(2), proposed_amplitude))
    IN  Where(RLess(log_prob_old, log_prob_new),
              Int2F(1), Exp(Fl(RSub(log_prob_new, log_prob_old))))

metropolis_symmetric_acceptance(amplitude, proposed_amplitude, logabs_) ==
    [c \in DOMAIN amplitude |->
        IF ~logabs_ THEN accept_raw(amplitude[c], proposed_amplitude[c])
        ELSE accept_log(amplitude[c], proposed_amplitude[c])]

\* finite inputs of the two representations
RawInputs ==
    {Int2F(0)} \cup
    UNION {{Fin(Pow2(e), 1), Fin(-Pow2(e), 1), Fin(1, Pow2(e)), Fin(-1, Pow2(e))} :
            e \in 0..EMax}

LogInputs == {Int2F(i) : i \in -Pow2(EMax)..Pow2(EMax)}

\* the reals whose exponential is a finite, nonzero amplitude
BothInputs == {a \in LogInputs : IsFin(Exp(a)) /\ Exp(a) # Int2F(0)}

AccIdle == [kind |-> "idle"]

\* one call on one-chain arrays, logabs = False
AcceptRaw ==
    /\ acc.kind = "idle"
    /\ \E a \in RawInputs, b \in RawInputs :
        /\ acc' = [kind |-> "raw", amplitude |-> <<a>>, proposed |-> <<b>>,
                   out |-> metropolis_symmetric_acceptance(<<a>>, <<b>>, FALSE)]
        /\ UNCHANGED <<mcmcVars, en, lap>>

\* one call on one-chain arrays, logabs = True
AcceptLog ==
    /\ acc.kind = "idle"
    /\ \E a \in LogInputs, b \in LogInputs :
        /\ acc' = [kind |-> "log", amplitude |-> <<a>>, proposed |-> <<b>>,
                   out |-> metropolis_symmetric_acceptance(<<a>>, <<b>>, TRUE)]
        /\ UNCHANGED <<mcmcVars, en, lap>>

\* the same pair of reals a, b in both representations
AcceptBoth ==
    /\ acc.kind = "idle"
    /\ \E a \in BothInputs, b \in BothInputs :
        /\ acc' = [kind |-> "both", a |-> a, b |-> b,
                   amplitude |-> <<Exp(a)>>, proposed |-> <<Exp(b)>>,
                   out |-> metropolis_symmetric_acceptance(<<Exp(a)>>, <<Exp(b)>>, FALSE),
                   outlog |-> metropolis_symmetric_acceptance(<<a>>, <<b>>, TRUE)]
        /\ UNCHANGED <<mcmcVars, en, lap>>

McmcIdle ==
    /\ data = [position |-> <<>>, amplitude |-> <<>>]
    /\ params = 0
    /\ logabs = TRUE
    /\ key = 1
    /\ consumed = <<>>
    /\ nsteps = 0
    /\ last = [kind |-> "idle"]

InitAccept ==
    /\ McmcIdle
    /\ acc = AccIdle
    /\ en = [kind |-> "idle"]
    /\ lap = [kind |-> "idle"]

NextAccept == AcceptRaw \/ AcceptLog \/ AcceptBoth

SpecAccept == InitAccept /\ [][NextAccept]_vars

----------------------------------------------------------------------------
\* a finite number in [0,1]
InUnit(x) == IsFin(x) /\ ~RLess(x, Int2F(0)) /\ ~RLess(Int2F(1), x)

\* C4: every element returned by metropolis_symmetric_acceptance, in either
\* representation, is a finite number in [0,1] when the inputs are finite.
C4_FiniteInUnit ==
    acc.kind \in {"raw", "log"} =>
        \A c \in DOMAIN acc.out : InUnit(acc.out[c])

\* the raw result for reals a <= b: 1, or NaN when the squared amplitude
\* exp(a)^2 (and with it exp(b)^2) overflows to infinity
RawExpected(a) ==
    IF Fl(RMul(Exp(a), Exp(a))) = PInf THEN NaN ELSE Int2F(1)

\* C5 as stated: for finite reals a >= b the raw acceptance of (exp(a), exp(b))
\* and the log acceptance of (a, b) agree and both equal 1.
C5_AgreeOneWhenAGeB ==
    (acc.kind = "both" /\ ~RLess(acc.a, acc.b)) =>
        /\ acc.out = acc.outlog
        /\ acc.out[1] = Int2F(1)

\* C5 amended: for finite reals a <= b whose exponentials are finite, nonzero
\* amplitudes, the log representation returns 1 and the raw one returns 1,
\* except that the raw one returns NaN when exp(a)^2 overflows.
C5_OneWhenALeB ==
    (acc.kind = "both" /\ ~RLess(acc.b, acc.a)) =>
        /\ acc.out[1] = RawExpected(acc.a)
        /\ acc.outlog[1] = Int2F(1)

C5_Witness ==
    /\ acc.kind = "both"
    /\ RLess(acc.a, acc.b)
    /\ IsFin(acc.amplitude[1]) /\ acc.amplitude[1].n > 0
    /\ acc.out = <<Int2F(1)>>
    /\ acc.outlog = <<Int2F(1)>>

----------------------------------------------------------------------------
\* Metropolis step on PositionAmplitudeData

\* walker positions stay in -PosMax..PosMax
PosMax == 1

\* number of consecutive steps taken from the seed key when the walkers move
McmcSteps == 3

\* number of consecutive steps taken from the seed key when only the keys and
\* the accept/reject draws vary
MaxSteps == 10

\* the two walkers of the ensemble: every operation is elementwise over chains
Chains == {1, 2}

\* values of one element of jax.random.normal
NormalVals == {-1, 0, 1}

\* values of one element of jax.random.uniform, in [0, 1)
UniformVals == {Int2F(0), Fin(1, 2)}

\* the model parameters the caller holds
ParamVals == {[w |-> 1], [w |-> 2]}

\* jax.random.split: two successor keys of a key, distinct from each other and
\* from the successors of every other key
split(k) == <<2 * k, 2 * k + 1>>

\* the model the caller injects: a Gaussian, (params, position) -> amplitude
model_apply(params_, position) ==
    [c \in DOMAIN position |-> Int2F(-(params_.w * position[c] * position[c]))]

PositionAmplitudeData(position, amplitude) ==
    [position |-> position, amplitude |-> amplitude]

\* faulty variant: the key that was split is handed back instead of its successor
gaussian_proposal_stale_key(positions, std_move, key_, z) ==
    LET subkey == split(key_)[2]
    IN  [positions |-> [c \in DOMAIN positions |-> positions[c] + std_move * z[c]],
         key |-> key_,
         consumed |-> <<key_, subkey>>]

\* z is the value of jax.random.normal(subkey, shape=positions.shape);
\* consumed lists the keys split or drawn from, in order
gaussian_proposal(positions, std_move, key_, z) ==
    LET new_key == split(key_)[1]
        subkey == split(key_)[2]
    IN  [positions |-> [c \in DOMAIN positions |-> positions[c] + std_move * z[c]],
         key |-> new_key,
         consumed |-> <<key_, subkey>>]

\* faulty variant: the amplitude of the current position is kept for the proposal
proposal_fn_stale_amplitude(std_move, params_, data_, key_, z) ==
    LET gp == gaussian_proposal(data_.position, std_move, key_, z)
    IN  [data |-> PositionAmplitudeData(gp.positions, model_apply(params_, data_.position)),
         key |-> gp.key,
         consumed |-> gp.consumed]

\* make_position_amplitude_gaussian_proposal(model_apply, std_move).proposal_fn
proposal_fn(std_move, params_, data_, key_, z) ==
    LET gp == gaussian_proposal(data_.position, std_move, key_, z)
        proposed_position == gp.positions
        proposed_amplitude == model_apply(params_, proposed_position)
    IN  [data |-> PositionAmplitudeData(proposed_position, proposed_amplitude),
         key |-> gp.key,
         consumed |-> gp.consumed]

\* make_position_amplitude_metropolis_symmetric_acceptance(logabs).acceptance_fn
acceptance_fn(logabs_, params_, data_, proposed_data) ==
    metropolis_symmetric_acceptance(data_.amplitude, proposed_data.amplitude, logabs_)

\* vmcnet.updates.data.update_position_amplitude
update_position_amplitude(data_, proposed_data, move_mask) ==
    PositionAmplitudeData(
        [c \in DOMAIN move_mask |->
            IF move_mask[c] THEN proposed_data.position[c] ELSE data_.position[c]],
        [c \in DOMAIN move_mask |->
            IF move_mask[c] THEN proposed_data.amplitude[c] ELSE data_.amplitude[c]])

\* faulty variant: a proposal is accepted when the draw is not below the probability
move_mask_flipped(u, accept_prob) ==
    [c \in DOMAIN accept_prob |-> ~RLess(u[c], accept_prob[c])]

\* jax.random.uniform(subkey, shape=accept_prob.shape) < accept_prob
move_mask_of(u, accept_prob) ==
    [c \in DOMAIN accept_prob |-> RLess(u[c], accept_prob[c])]

RECURSIVE SumSeq(_)
SumSeq(s) == IF s = <<>> THEN Int2F(0) ELSE RAdd(s[1], SumSeq(Tail(s)))

\* jnp.mean of a one-dimensional array
Mean(s) == RDiv(SumSeq(s), Int2F(Len(s)))

\* make_metropolis_step(...).metrop_step_fn(data, params, key): the positional
\* parameters are (data, params, key).  z and u are the values of the normal and
\* the uniform draw.  args and the *_args fields are what the function and each
\* injected function received, in positional order.
metrop_step_fn(data_, params_, key_, std_move, logabs_, z, u) ==
    LET key1 == split(key_)[1]
        subkey == split(key_)[2]
        prop == proposal_fn(std_move, params_, data_, key1, z)
        proposed_data == prop.data
        key2 == prop.key
        accept_prob == acceptance_fn(logabs_, params_, data_, proposed_data)
        move_mask == move_mask_of(u, accept_prob)
        new_data == update_position_amplitude(data_, proposed_data, move_mask)
    IN  [kind |-> "step",
         args |-> <<data_, params_, key_>>,
         proposal_args |-> <<params_, data_, key1>>,
         acceptance_args |-> <<params_, data_, proposed_data>>,
         update_args |-> <<data_, proposed_data, move_mask>>,
         proposed |-> proposed_data,
         proposal_key |-> key2,
         accept_prob |-> accept_prob,
         u |-> u,
         move_mask |-> move_mask,
         draw_keys |-> <<prop.consumed[2], subkey>>,
         consumed |-> <<key_>> \o prop.consumed \o <<subkey>>,
         ret |-> <<Mean(accept_prob), new_data, key2>>]

\* the proposal scale the step is built with
StdMove == 1

\* One call of the step by the sampler: the data and the key are those the
\* previous call returned, the params are the caller's.  The normal draw takes
\* its elements from Z.
StepWith(cap, Z) ==
    /\ nsteps < cap
    /\ \E z \in [Chains -> Z], u \in [Chains -> UniformVals] :
        /\ \A c \in Chains : data.position[c] + StdMove * z[c] \in -PosMax..PosMax
        /\ \E r \in {metrop_step_fn(data, params, key, StdMove, logabs, z, u)} :
            /\ last' = r
            /\ data' = r.ret[2]
            /\ key' = r.ret[3]
            /\ consumed' = consumed \o r.consumed
            /\ nsteps' = nsteps + 1
    /\ UNCHANGED <<params, logabs, acc, en, lap>>

Step == StepWith(McmcSteps, NormalVals)

\* a step whose normal draw is zero: the walkers stay, the keys advance
KeyStep == StepWith(MaxSteps, {0})

InitMcmc ==
    /\ params \in ParamVals
    /\ logabs \in BOOLEAN
    /\ \E pos \in [Chains -> -PosMax..PosMax] :
         data = PositionAmplitudeData(pos, model_apply(params, pos))
    /\ key = 1
    /\ consumed = <<>>
    /\ nsteps = 0
    /\ last = [kind |-> "idle"]
    /\ acc = AccIdle
    /\ en = [kind |-> "idle"]
    /\ lap = [kind |-> "idle"]

NextMcmc == Step

SpecMcmc == InitMcmc /\ [][NextMcmc]_vars

NextKeys == KeyStep

SpecKeys == InitMcmc /\ [][NextKeys]_vars

\* C1: over all the step calls made so far, no key is split or drawn from
\* twice, and the keys of the uniform and normal draws are pairwise distinct.
C1_NoKeyReuse ==
    \A i, j \in 1..Len(consumed) : i # j => consumed[i] # consumed[j]

C1_Witness ==
    /\ nsteps >= 10
    /\ Len(consumed) = 4 * nsteps
    /\ last.draw_keys[1] # last.draw_keys[2]

\* C2: the cached amplitude of every chain is the model evaluated at its
\* position, in every state the step returns.
C2_AmplitudeCached ==
    data.amplitude = model_apply(params, data.position)

C2_Witness ==
    /\ last.kind = "step"
    /\ \E c, e \in Chains : last.move_mask[c] /\ ~last.move_mask[e]
    /\ data.position # last.args[1].position
    /\ data.amplitude # last.args[1].amplitude

\* C3: per chain, the returned position and amplitude are the proposed ones
\* when u < acceptProb and the current ones otherwise.
C3_PerChainUpdate ==
    last.kind = "step" =>
        \A c \in Chains :
            LET old == last.args[1]
                accept == RLess(last.u[c], last.accept_prob[c])
            IN  /\ data.position[c] =
                     IF accept THEN last.proposed.position[c] ELSE old.position[c]
                /\ data.amplitude[c] =
                     IF accept THEN last.proposed.amplitude[c] ELSE old.amplitude[c]

C3_Witness ==
    /\ last.kind = "step"
    /\ \E c, e \in Chains :
         /\ RLess(last.u[c], last.accept_prob[c])
         /\ ~RLess(last.u[e], last.accept_prob[e])
         /\ last.proposed.position[c] # last.args[1].position[c]
         /\ last.proposed.position[e] # last.args[1].position[e]
         /\ data.position[c] = last.proposed.position[c]
         /\ data.position[e] = last.args[1].position[e]

\* C10: the first positional argument of the step is what proposal_fn and
\* acceptance_fn receive as params, the second is what proposal_fn,
\* acceptance_fn and update_data_fn receive as data, and the step returns
\* (mean of acceptProb, newData, key returned by the proposal).
C10_ParamsDataKeyOrder ==
    last.kind = "step" =>
        /\ last.proposal_args[1] = last.args[1]
        /\ last.acceptance_args[1] = last.args[1]
        /\ last.proposal_args[2] = last.args[2]
        /\ last.acceptance_args[2] = last.args[2]
        /\ last.update_args[1] = last.args[2]
        /\ last.ret = <<Mean(last.accept_prob), data, last.proposal_key>>

----------------------------------------------------------------------------
\* Energy, variance and energy gradient

\* longest array of local energies
MaxLen == 4

\* local energies are the integers 1..MaxE
MaxE == 4

\* one element of the tangent of log_psi_apply along a parameter direction
TangentVals == {-1, 2}

EnergyArrays == UNION {[1..n -> {Int2F(e) : e \in 1..MaxE}] : n \in 1..MaxLen}

\* vmcnet.utils.distribute.pmean_if_pmap with a single worker
pmean_if_pmap(x) == x

\* faulty variant: the biased variance, without the n / (n - 1) factor
compute_energy_data_biased(local_energies, nchains) ==
    LET energy == pmean_if_pmap(Mean(local_energies))
        sq == [c \in DOMAIN local_energies |->
                RMul(RSub(local_energies[c], energy), RSub(local_energies[c], energy))]
    IN  [energy |-> energy, variance |-> pmean_if_pmap(Mean(sq)),
         local_energies |-> local_energies, error |-> "none"]

\* compute_energy_data, given local_energies = local_energy_fn(params, positions);
\* error is the exception raised, "none" when the function returns
compute_energy_data(local_energies, nchains) ==
    LET energy == pmean_if_pmap(Mean(local_energies))
        sq == [c \in DOMAIN local_energies |->
                RMul(RSub(local_energies[c], energy), RSub(local_energies[c], energy))]
        variance == RDiv(RMul(pmean_if_pmap(Mean(sq)), Int2F(nchains)),
                         Int2F(nchains - 1))
    IN  [energy |-> energy, variance |-> variance,
         local_energies |-> local_energies, error |-> "none"]

RECURSIVE Dot(_, _)
Dot(a, b) ==
    IF a = <<>> THEN Int2F(0)
    ELSE RAdd(RMul(a[1], b[1]), Dot(Tail(a), Tail(b)))

\* faulty variant: the local energies are not centred on the energy
compute_energy_data_jvp_uncentred(local_energies, nchains, psi_tangents) ==
    [primals_out |-> compute_energy_data(local_energies, nchains),
     tangent_out |-> RMul(Int2F(2), Dot(psi_tangents, local_energies))]

\* compute_energy_data_jvp; psi_tangents is the tangent of log_psi_apply that
\* jax.jvp(log_psi_apply, primals, tangents) returns, one element per chain
compute_energy_data_jvp(local_energies, nchains, psi_tangents) ==
    LET primals_out == compute_energy_data(local_energies, nchains)
        energy == primals_out.energy
        centred == [c \in DOMAIN local_energies |-> RSub(local_energies[c], energy)]
    IN  [primals_out |-> primals_out,
         tangent_out |-> RMul(Int2F(2), Dot(psi_tangents, centred))]

\* the forward value, for any nchains the caller configures
EnergyCall ==
    /\ en.kind = "idle"
    /\ \E les \in EnergyArrays, n \in 0..MaxLen :
        /\ \E r \in {compute_energy_data(les, n)} :
            en' = [kind |-> "energy", input |-> les, nchains |-> n,
                   energy |-> r.energy, variance |-> r.variance,
                   local_energies |-> r.local_energies, error |-> r.error]
        /\ UNCHANGED <<mcmcVars, acc, lap>>

\* energy_data_val_and_grad: the value and its derivative along one parameter
\* direction, which is the gradient's component for that parameter
GradCall ==
    /\ en.kind = "idle"
    /\ \E les \in EnergyArrays :
        \E t \in [1..Len(les) -> {Int2F(v) : v \in TangentVals}] :
            /\ \E r \in {compute_energy_data_jvp(les, Len(les), t)} :
                en' = [kind |-> "grad", input |-> les, nchains |-> Len(les),
                       psi_tangents |-> t,
                       energy |-> r.primals_out.energy,
                       variance |-> r.primals_out.variance,
                       local_energies |-> r.primals_out.local_energies,
                       error |-> r.primals_out.error,
                       grad |-> r.tangent_out]
            /\ UNCHANGED <<mcmcVars, acc, lap>>

InitEnergy ==
    /\ McmcIdle
    /\ acc = AccIdle
    /\ en = [kind |-> "idle"]
    /\ lap = [kind |-> "idle"]

NextEnergy == EnergyCall \/ GradCall

SpecEnergy == InitEnergy /\ [][NextEnergy]_vars

RECURSIVE IntSum(_)
IntSum(s) == IF s = <<>> THEN 0 ELSE s[1].n + IntSum(Tail(s))

RECURSIVE IntSumSq(_)
IntSumSq(s) == IF s = <<>> THEN 0 ELSE s[1].n * s[1].n + IntSumSq(Tail(s))

\* C6: with nchains = the number of local energies (at least 2), the energy is
\* their arithmetic mean, the variance is the unbiased sample variance
\* (n * sum(e^2) - sum(e)^2) / (n * (n - 1)), and the local energies are
\* returned unchanged.
C6_MeanAndUnbiasedVariance ==
    (en.kind = "energy" /\ en.nchains = Len(en.input) /\ en.nchains >= 2) =>
        LET n == en.nchains
        IN  /\ en.energy = Fin(IntSum(en.input), n)
            /\ en.variance =
                 Fin(n * IntSumSq(en.input) - IntSum(en.input) * IntSum(en.input),
                     n * (n - 1))
            /\ en.local_energies = en.input

C6_Witness ==
    /\ en.kind = "energy"
    /\ en.input = <<Int2F(1), Int2F(2), Int2F(3), Int2F(4)>>
    /\ en.nchains = 4
    /\ en.energy = Fin(5, 2)
    /\ en.variance = Fin(5, 3)

\* C7: a call with nchains <= 1 raises InvalidConfiguration instead of
\* returning a variance.
C7_RaisesOnFewChains ==
    (en.kind = "energy" /\ en.nchains <= 1) => en.error = "InvalidConfiguration"

AllEqual(s) == \A i, j \in DOMAIN s : s[i] = s[j]

----------------------------------------------------------------------------
\* laplacian_psi_over_psi.  Arrays here hold integers; x is a two-dimensional
\* array, a sequence of rows, and a flat array is a sequence.

\* largest number of scalar components of x
MaxN == 4

\* values of one component of x
XVals == {-1, 0, 2}

\* the two-dimensional shapes with at most MaxN components
Shapes == {sh \in (1..MaxN) \X (1..MaxN) : sh[1] * sh[2] <= MaxN}

\* the injected grad_log_psi functions: the gradient of
\* a/2 |x|^2 + b/2 sum_r (sum_c x[r][c])^2; a = -1, b = 0 is psi = exp(-|x|^2/2)
LapParams == {[a |-> -1, b |-> 0], [a |-> -1, b |-> 1], [a |-> 2, b |-> -1]}

RECURSIVE ISum(_)
ISum(s) == IF s = <<>> THEN 0 ELSE s[1] + ISum(Tail(s))

\* grad_log_psi(params, x): same shape as x
grad_log_psi(params_, x) ==
    [r \in DOMAIN x |->
        [c \in DOMAIN x[r] |-> params_.a * x[r][c] + params_.b * ISum(x[r])]]

\* x.shape
shape_of(x) == <<Len(x), Len(x[1])>>

\* jnp.reshape(x, (-1,)): the rows one after the other
RECURSIVE reshape_flat(_)
reshape_flat(x) == IF x = <<>> THEN <<>> ELSE x[1] \o reshape_flat(Tail(x))

\* jnp.reshape(flat, x_shape)
reshape_to(flat, x_shape) ==
    [r \in 1..x_shape[1] |->
        [c \in 1..x_shape[2] |-> flat[(r - 1) * x_shape[2] + c]]]

\* jnp.eye(n)[i], i counted from 0
identity_row(n, i) == [j \in 1..n |-> IF j = i + 1 THEN 1 ELSE 0]

flattened_grad_log_psi_of_flat_x(params_, x_shape, flat_x_in) ==
    reshape_flat(grad_log_psi(params_, reshape_to(flat_x_in, x_shape)))

\* jax.jvp of the flattened gradient at flat_x along tangent: the value and
\* the directional derivative (the functions of LapParams are affine, so the
\* derivative along v is f(x + v) - f(x))
jvp_flat(params_, x_shape, flat_x, tangent) ==
    LET f(y) == flattened_grad_log_psi_of_flat_x(params_, x_shape, y)
        moved == [j \in DOMAIN flat_x |-> flat_x[j] + tangent[j]]
    IN  [primals |-> f(flat_x),
         tangents |-> [j \in DOMAIN flat_x |-> f(moved)[j] - f(flat_x)[j]]]

\* faulty variant: the primal is accumulated without being squared
step_fn_unsquared(params_, x_shape, flat_x, carry) ==
    LET i == carry[1]
        out == jvp_flat(params_, x_shape, flat_x, identity_row(Len(flat_x), i))
    IN  <<i + 1, carry[2] + out.primals[i + 1] + out.tangents[i + 1]>>

\* step_fn(carry, unused): carry = (i, accumulated sum), i counted from 0
step_fn(params_, x_shape, flat_x, carry) ==
    LET i == carry[1]
        out == jvp_flat(params_, x_shape, flat_x, identity_row(Len(flat_x), i))
    IN  <<i + 1,
          carry[2] + out.primals[i + 1] * out.primals[i + 1] + out.tangents[i + 1]>>

\* the call: x is flattened, the scan starts from the carry (0, 0.0)
LapCall ==
    /\ lap.kind = "idle"
    /\ \E sh \in Shapes, p \in LapParams :
        \E x \in [1..sh[1] -> [1..sh[2] -> XVals]] :
            /\ lap' = [kind |-> "scan", params |-> p, x |-> x,
                       x_shape |-> shape_of(x), flat_x |-> reshape_flat(x),
                       n |-> Len(reshape_flat(x)),
                       carry |-> <<0, 0>>, iter |-> 0, visited |-> <<>>]
            /\ UNCHANGED <<mcmcVars, acc, en>>

\* one iteration of jax.lax.scan(step_fn, (0, 0.0), xs=None, length=n)
ScanStep ==
    /\ lap.kind = "scan"
    /\ lap.iter < lap.n
    /\ lap' = [lap EXCEPT !.carry = step_fn(lap.params, lap.x_shape, lap.flat_x, lap.carry),
                          !.iter = lap.iter + 1,
                          !.visited = Append(lap.visited, lap.carry[1])]
    /\ UNCHANGED <<mcmcVars, acc, en>>

\* the scan is over: out[1] is returned
LapReturn ==
    /\ lap.kind = "scan"
    /\ lap.iter = lap.n
    /\ lap' = [kind |-> "done", params |-> lap.params, x |-> lap.x, n |-> lap.n,
               iter |-> lap.iter, visited |-> lap.visited, out |-> lap.carry[2]]
    /\ UNCHANGED <<mcmcVars, acc, en>>

InitLaplacian ==
    /\ McmcIdle
    /\ acc = AccIdle
    /\ en = [kind |-> "idle"]
    /\ lap = [kind |-> "idle"]

NextLaplacian == LapCall \/ ScanStep \/ LapReturn

SpecLaplacian == InitLaplacian /\ [][NextLaplacian]_vars

\* sum over the components of x of g^2, g the gradient at that component
RECURSIVE SqSum(_)
SqSum(s) == IF s = <<>> THEN 0 ELSE s[1] * s[1] + SqSum(Tail(s))

RECURSIVE GradSqSum(_, _)
GradSqSum(p, rows) ==
    IF rows = <<>> THEN 0
    ELSE SqSum([c \in DOMAIN rows[1] |-> p.a * rows[1][c] + p.b * ISum(rows[1])])
         + GradSqSum(p, Tail(rows))

\* C9: the scan takes n iterations and visits the flattened indices 0..n-1
\* once each, in order; the result is the sum over the components of
\* g^2 + dg_i/dx_i (here dg_i/dx_i = a + b), which for gradLogPsi = -x is
\* |x|^2 - n, whatever the shape of x.
C9_LaplacianSum ==
    lap.kind = "done" =>
        /\ lap.iter = lap.n
        /\ lap.n = Len(lap.x) * Len(lap.x[1])
        /\ lap.visited = [k \in 1..lap.n |-> k - 1]
        /\ lap.out = GradSqSum(lap.params, lap.x) + lap.n * (lap.params.a + lap.params.b)
        /\ (lap.params = [a |-> -1, b |-> 0] =>
               lap.out = ISum([r \in DOMAIN lap.x |-> SqSum(lap.x[r])]) - lap.n)

C9_Witness ==
    /\ lap.kind = "done"
    /\ lap.params = [a |-> -1, b |-> 0]
    /\ Len(lap.x) = 2 /\ Len(lap.x[1]) = 2
    /\ lap.x = <<<<2, -1>>, <<0, 2>>>>
    /\ lap.out = 5

====
